---- MODULE Spec2Model ----
(***************************************************************************)
(* Model of the "Clean old daily notes" plugin (src/main.ts).              *)
(*                                                                         *)
(* Text is a sequence of one-character strings.  The string functions of   *)
(* the plugin (the two fenced-block replaces, removeEmptySections,         *)
(* applyTransforms, isOldEnough) are operators computed the way the code   *)
(* computes them; cleanNotes is a state machine with one action per        *)
(* synchronous stretch between two awaits.                                 *)
(***************************************************************************)
EXTENDS Integers, Sequences, FiniteSets, TLC

VARIABLES
    phase,      \* plugin life cycle: "unloaded", "loaded" (onload ran), "ready" (layout ready, interval armed)
    settings,   \* this.settings
    stored,     \* the plugin's saved data (loadData / saveData)
    contents,   \* vault: the text of each child of the daily notes folder
    runs,       \* the cleanNotes invocations so far, one record each
    now,        \* the wall clock (new Date()), in hours since 1970-01-01T00:00Z
    timer,      \* when the 24-hour interval fires next (0: not armed)
    host,       \* the host: lenient (Date rolls a day past the month's end over, as V8 does, instead of
                \* yielding an invalid Date) and folder (the daily-notes core plugin's folder option)
    cleanDocs,  \* history: the children a completed run has cleaned under the present settings
    edits,      \* history: how many times a settings-tab handler has run
    input,      \* argument of the function under test (pure-function specifications)
    output      \* results of the calls made so far (pure-function specifications)

pluginVars == <<phase, stored, contents, runs, now, timer, host, cleanDocs, edits>>

vars == <<pluginVars, settings, input, output>>

----------------------------------------------------------------------------
(* Characters and strings *)

Digits == {"0", "1", "2", "3", "4", "5", "6", "7", "8", "9"}

DigitVal(c) ==
    CASE c = "0" -> 0 [] c = "1" -> 1 [] c = "2" -> 2 [] c = "3" -> 3 [] c = "4" -> 4
      [] c = "5" -> 5 [] c = "6" -> 6 [] c = "7" -> 7 [] c = "8" -> 8 [] c = "9" -> 9

\* The whitespace class of a JavaScript regular expression, and the characters String.trim removes.
IsWhitespace(c) == c \in {" ", "\t", "\n", "\r"}

\* text.substring(i-1, i-1+Len(pat)) === pat
startsWithAt(text, i, pat) ==
    /\ i >= 1
    /\ i + Len(pat) - 1 <= Len(text)
    /\ \A k \in 1..Len(pat) : text[i + k - 1] = pat[k]

\* String.prototype.trim
RECURSIVE trimStart(_)
trimStart(text) ==
    IF text # <<>> /\ IsWhitespace(Head(text)) THEN trimStart(Tail(text)) ELSE text

RECURSIVE trimEnd(_)
trimEnd(text) ==
    IF text # <<>> /\ IsWhitespace(text[Len(text)])
    THEN trimEnd(SubSeq(text, 1, Len(text) - 1))
    ELSE text

trim(text) == trimEnd(trimStart(text))

\* text.split on the newline: always at least one line
RECURSIVE splitFrom(_, _, _)
splitFrom(text, i, cur) ==
    IF i > Len(text) THEN <<cur>>
    ELSE IF text[i] = "\n" THEN <<cur>> \o splitFrom(text, i + 1, <<>>)
    ELSE splitFrom(text, i + 1, Append(cur, text[i]))

split(text) == splitFrom(text, 1, <<>>)

\* lines.join with the newline
RECURSIVE join(_)
join(lines) ==
    IF lines = <<>> THEN <<>>
    ELSE IF Len(lines) = 1 THEN lines[1]
    ELSE lines[1] \o <<"\n">> \o join(Tail(lines))

----------------------------------------------------------------------------
(* Fenced-block removal: the global, non-greedy replace of a fence, the tag, anything, a fence *)

\* The backquote character (a TLA+ string cannot hold one: it is written ^ here)
BACKQUOTE == "^"

FENCE == <<BACKQUOTE, BACKQUOTE, BACKQUOTE>>
BUTTON == <<"b", "u", "t", "t", "o", "n">>
TASKS == <<"t", "a", "s", "k", "s">>

\* The non-greedy tail of the pattern: the first fence at or after position from (0: none)
RECURSIVE closeAt(_, _)
closeAt(text, from) ==
    IF from + 2 > Len(text) THEN 0
    ELSE IF startsWithAt(text, from, FENCE) THEN from
    ELSE closeAt(text, from + 1)

\* A match of the pattern starting at i: the index of its last character (0: no match at i)
matchEnd(text, i, tag) ==
    IF startsWithAt(text, i, FENCE \o tag)
    THEN LET q == closeAt(text, i + 3 + Len(tag))
         IN  IF q = 0 THEN 0 ELSE q + 2
    ELSE 0

\* The mutant matches greedily: up to the last fence instead of the first
RECURSIVE lastCloseAt(_, _)
lastCloseAt(text, from) ==
    LET q == closeAt(text, from)
    IN  IF q = 0 THEN 0
        ELSE LET r == lastCloseAt(text, q + 1)
             IN  IF r = 0 THEN q ELSE r

RECURSIVE replaceGreedy(_, _, _)
replaceGreedy(text, i, tag) ==
    IF i > Len(text) THEN <<>>
    ELSE LET q == IF startsWithAt(text, i, FENCE \o tag)
                  THEN lastCloseAt(text, i + 3 + Len(tag)) ELSE 0
         IN  IF q # 0 THEN replaceGreedy(text, q + 3, tag)
             ELSE <<text[i]>> \o replaceGreedy(text, i + 1, tag)

stripBlocksGreedy(text, tag) == replaceGreedy(text, 1, tag)

\* The global replace: matches are taken left to right, the scan resumes after each match
RECURSIVE replaceFrom(_, _, _)
replaceFrom(text, i, tag) ==
    IF i > Len(text) THEN <<>>
    ELSE LET e == matchEnd(text, i, tag)
         IN  IF e # 0 THEN replaceFrom(text, e + 1, tag)
             ELSE <<text[i]>> \o replaceFrom(text, i + 1, tag)

stripBlocks(text, tag) == replaceFrom(text, 1, tag)

----------------------------------------------------------------------------
(* removeEmptySections *)

\* The heading test: one or more # at the start of the line, then a whitespace character
isHeading(line) ==
    \E k \in 1..(Len(line) - 1) :
        /\ \A m \in 1..k : line[m] = "#"
        /\ IsWhitespace(line[k + 1])

\* The inner while loop: from j to the next heading line or the end; <<j, hasContent>>
RECURSIVE scanSection(_, _, _)
scanSection(lines, j, hasContent) ==
    IF j <= Len(lines) /\ ~isHeading(lines[j])
    THEN scanSection(lines, j + 1, hasContent \/ trim(lines[j]) # <<>>)
    ELSE <<j, hasContent>>

\* The for loop, from index i with result built so far
RECURSIVE pruneLoop(_, _, _)
pruneLoop(lines, i, result) ==
    IF i > Len(lines) THEN result
    ELSE IF isHeading(lines[i])
    THEN LET s == scanSection(lines, i + 1, FALSE)
         IN  IF ~s[2] THEN pruneLoop(lines, s[1], result)
             ELSE pruneLoop(lines, i + 1, Append(result, lines[i]))
    ELSE pruneLoop(lines, i + 1, Append(result, lines[i]))

\* The mutant resumes one line too far after an empty section (i = j instead of i = j - 1)
RECURSIVE pruneLoopSkip(_, _, _)
pruneLoopSkip(lines, i, result) ==
    IF i > Len(lines) THEN result
    ELSE IF isHeading(lines[i])
    THEN LET s == scanSection(lines, i + 1, FALSE)
         IN  IF ~s[2] THEN pruneLoopSkip(lines, s[1] + 1, result)
             ELSE pruneLoopSkip(lines, i + 1, Append(result, lines[i]))
    ELSE pruneLoopSkip(lines, i + 1, Append(result, lines[i]))

removeEmptySectionsSkip(text) == join(pruneLoopSkip(split(text), 1, <<>>))

removeEmptySections(text) == join(pruneLoop(split(text), 1, <<>>))

----------------------------------------------------------------------------
(* applyTransforms *)

\* The mutant prunes the empty sections before it strips the blocks
applyTransformsPruneFirst(s, text) ==
    LET o1 == IF s.removeEmptySections THEN removeEmptySections(text) ELSE text
        o2 == IF s.removeButtons THEN stripBlocks(o1, BUTTON) ELSE o1
        o3 == IF s.removeTaskQueries THEN stripBlocks(o2, TASKS) ELSE o2
    IN  trim(o3) \o <<"\n">>

applyTransforms(s, text) ==
    LET o1 == IF s.removeButtons THEN stripBlocks(text, BUTTON) ELSE text
        o2 == IF s.removeTaskQueries THEN stripBlocks(o1, TASKS) ELSE o1
        o3 == IF s.removeEmptySections THEN removeEmptySections(o2) ELSE o2
    IN  trim(o3) \o <<"\n">>

----------------------------------------------------------------------------
(* isOldEnough *)

\* The clock counts hours; the source counts milliseconds (1000 * 60 * 60 * 24 to the day)
HoursPerDay == 24

\* The date pattern at position i: four digits, a hyphen, two digits, a hyphen, two digits
dateShapeAt(name, i) ==
    /\ i + 9 <= Len(name)
    /\ \A k \in {0, 1, 2, 3, 5, 6, 8, 9} : name[i + k] \in Digits
    /\ name[i + 4] = "-"
    /\ name[i + 7] = "-"

\* basename.match(...): the leftmost match, as match[1] (<<>>: null)
RECURSIVE matchDate(_, _)
matchDate(name, i) ==
    IF i + 9 > Len(name) THEN <<>>
    ELSE IF dateShapeAt(name, i) THEN SubSeq(name, i, i + 9)
    ELSE matchDate(name, i + 1)

isLeapYear(y) == (y % 4 = 0 /\ y % 100 # 0) \/ y % 400 = 0

daysInMonth(y, m) ==
    IF m = 2 THEN (IF isLeapYear(y) THEN 29 ELSE 28)
    ELSE IF m \in {4, 6, 9, 11} THEN 30 ELSE 31

\* MakeDay of ECMAScript: days from 1970-01-01 to y-m-d; a day past the month's end runs into the next month
makeDay(y, m, d) ==
    LET yy  == IF m <= 2 THEN y - 1 ELSE y
        era == yy \div 400
        yoe == yy - era * 400
        mp  == (m + 9) % 12
        doy == (153 * mp + 2) \div 5 + d - 1
        doe == yoe * 365 + yoe \div 4 - yoe \div 100 + doy
    IN  era * 146097 + doe - 719468

\* new Date(match[1]) for a string of the date shape: nan (an invalid Date), or its time in hours (UTC midnight).
\* roll: the engine accepts any day 1..31 and rolls it over; otherwise a day past the month's end is NaN.
dateValue(str, roll) ==
    LET y == DigitVal(str[1]) * 1000 + DigitVal(str[2]) * 100 + DigitVal(str[3]) * 10 + DigitVal(str[4])
        m == DigitVal(str[6]) * 10 + DigitVal(str[7])
        d == DigitVal(str[9]) * 10 + DigitVal(str[10])
    IN  IF m < 1 \/ m > 12 \/ d < 1 \/ d > 31 THEN [nan |-> TRUE, time |-> 0]
        ELSE IF ~roll /\ d > daysInMonth(y, m) THEN [nan |-> TRUE, time |-> 0]
        ELSE [nan |-> FALSE, time |-> makeDay(y, m, d) * HoursPerDay]

\* diff = (now - fileDate) / ms-per-day >= daysAfter, without the division
isOldEnough(s, basename, clock, roll) ==
    LET match == matchDate(basename, 1)
    IN  IF match = <<>> THEN FALSE
        ELSE LET fileDate == dateValue(match, roll)
             IN  IF fileDate.nan THEN FALSE
                 ELSE clock - fileDate.time >= s.daysAfter * HoursPerDay

----------------------------------------------------------------------------
(* Settings *)

DEFAULT_SETTINGS ==
    [dailyNotesFolder |-> "", daysAfter |-> 7, removeButtons |-> TRUE,
     removeTaskQueries |-> TRUE, removeEmptySections |-> TRUE]

----------------------------------------------------------------------------
(* Specifications of the pure functions: Init draws the argument, the action calls the function *)

\* All texts of at most n characters over chars
Texts(chars, n) == UNION {[1..k -> chars] : k \in 0..n}

\* The plugin's own state, at rest while a function is exercised
Quiet ==
    /\ phase = "loaded"
    /\ stored = <<>>
    /\ contents = <<>>
    /\ runs = <<>>
    /\ timer = 0
    /\ cleanDocs = {}
    /\ edits = 0

AtRest ==
    /\ Quiet
    /\ now = 0
    /\ host = [lenient |-> FALSE, folder |-> ""]

(* removeEmptySections on every text of heading marks, blanks, newlines and a letter *)

MaxPruneLen == 8

PruneChars == {"#", " ", "\n", "a"}

InitPrune ==
    /\ AtRest
    /\ settings = DEFAULT_SETTINGS
    /\ input \in Texts(PruneChars, MaxPruneLen)
    /\ output = <<>>

CallRemoveEmptySections ==
    /\ output = <<>>
    /\ output' = <<removeEmptySections(input)>>
    /\ UNCHANGED <<pluginVars, settings, input>>

NextPrune == CallRemoveEmptySections

SpecPrune == InitPrune /\ [][NextPrune]_vars

\* The section a line belongs to: the index of the last heading line at or before k (0: none)
SectionOf(lines, k) ==
    LET hs == {h \in 1..k : isHeading(lines[h])}
    IN  IF hs = {} THEN 0 ELSE CHOOSE h \in hs : \A g \in hs : g <= h

IsBlank(line) == \A m \in 1..Len(line) : IsWhitespace(line[m])

\* The section headed by line h is empty: every line of it after the heading is blank
EmptySection(lines, h) ==
    \A j \in (h + 1)..Len(lines) : SectionOf(lines, j) = h => IsBlank(lines[j])

InEmptySection(lines, k) ==
    LET h == SectionOf(lines, k) IN h # 0 /\ EmptySection(lines, h)

RECURSIVE LinesOutsideEmptySections(_, _)
LinesOutsideEmptySections(lines, k) ==
    IF k > Len(lines) THEN <<>>
    ELSE (IF InEmptySection(lines, k) THEN <<>> ELSE <<lines[k]>>)
         \o LinesOutsideEmptySections(lines, k + 1)

\* C5: removeEmptySections returns the lines of the text, in order and verbatim, except the
\* lines of the empty sections: a heading line (one or more # then whitespace) and the blank
\* lines after it go if and only if every line up to the next heading line or the end of the
\* text is blank, whatever the level of the headings.
C5_PruneDropsExactlyEmptySections ==
    output # <<>> =>
        output[1] = join(LinesOutsideEmptySections(split(input), 1))

\* An empty section was dropped next to a heading that has content and was kept
C5_Witness ==
    /\ output # <<>>
    /\ LET lines == split(input)
       IN  /\ \E k \in 1..Len(lines) : isHeading(lines[k]) /\ InEmptySection(lines, k)
           /\ \E k \in 1..Len(lines) : isHeading(lines[k]) /\ ~InEmptySection(lines, k)
    /\ output[1] # input

(* The block replace, for each tag, on texts put together from fences, tags and filler *)

MaxStripFrags == 6

StripFrags == {FENCE, BUTTON, TASKS, <<BACKQUOTE>>, <<"x">>}

RECURSIVE Flatten(_)
Flatten(frags) == IF frags = <<>> THEN <<>> ELSE Head(frags) \o Flatten(Tail(frags))

\* All texts made of at most n of the fragments
FragTexts(frags, n) == {Flatten(fs) : fs \in Texts(frags, n)}

InitStrip ==
    /\ AtRest
    /\ settings = DEFAULT_SETTINGS
    /\ input \in FragTexts(StripFrags, MaxStripFrags)
    /\ output = <<>>

CallStripButtons ==
    /\ output = <<>>
    /\ output' = <<BUTTON, stripBlocks(input, BUTTON)>>
    /\ UNCHANGED <<pluginVars, settings, input>>

CallStripTasks ==
    /\ output = <<>>
    /\ output' = <<TASKS, stripBlocks(input, TASKS)>>
    /\ UNCHANGED <<pluginVars, settings, input>>

NextStrip == CallStripButtons \/ CallStripTasks

SpecStrip == InitStrip /\ [][NextStrip]_vars

\* The positions where a fence starts, at or after from
FencesFrom(text, from) == {q \in from..Len(text) : startsWithAt(text, q, FENCE)}

\* An opening fence at p (three backquotes and the tag) that a closing fence follows
ClosedOpenerAt(text, p, tag) ==
    startsWithAt(text, p, FENCE \o tag) /\ FencesFrom(text, p + 3 + Len(tag)) # {}

\* The fenced spans, left to right and non-overlapping, from position from on: the positions they cover
RECURSIVE SpanPositions(_, _, _)
SpanPositions(text, from, tag) ==
    LET ps == {p \in from..Len(text) : ClosedOpenerAt(text, p, tag)}
    IN  IF ps = {} THEN {}
        ELSE LET p  == CHOOSE x \in ps : \A y \in ps : x <= y
                 qs == FencesFrom(text, p + 3 + Len(tag))
                 q  == CHOOSE x \in qs : \A y \in qs : x <= y
             IN  (p..(q + 2)) \cup SpanPositions(text, q + 3, tag)

RECURSIVE Outside(_, _, _)
Outside(text, k, removed) ==
    IF k > Len(text) THEN <<>>
    ELSE (IF k \in removed THEN <<>> ELSE <<text[k]>>) \o Outside(text, k + 1, removed)

\* C6: for each tag, the block replace deletes exactly the fenced spans, taken left to right
\* and non-overlapping, each from three backquotes immediately followed by the tag up to and
\* including the next three backquotes; the characters outside the spans are kept in order,
\* and an opening fence outside every span that no closing fence follows is left unchanged
\* together with everything after it.
C6_StripDeletesExactlyFencedSpans ==
    output # <<>> =>
        LET tag     == output[1]
            removed == SpanPositions(input, 1, tag)
        IN  /\ output[2] = Outside(input, 1, removed)
            /\ \A p \in 1..Len(input) :
                  ( /\ startsWithAt(input, p, FENCE \o tag)
                    /\ p \notin removed
                    /\ FencesFrom(input, p + 3 + Len(tag)) = {} )
                  => /\ Len(output[2]) >= Len(input) - p + 1
                     /\ SubSeq(output[2], Len(output[2]) - (Len(input) - p), Len(output[2]))
                          = SubSeq(input, p, Len(input))

\* A block was deleted between two kept characters, ahead of an opening fence that is never closed
C6_Witness ==
    /\ output # <<>>
    /\ LET tag     == output[1]
           removed == SpanPositions(input, 1, tag)
       IN  /\ removed # {}
           /\ \E a, b \in 1..Len(input) :
                 /\ a \notin removed /\ b \notin removed
                 /\ \E r \in removed : a < r /\ r < b
           /\ \E p \in 1..Len(input) :
                 /\ startsWithAt(input, p, FENCE \o tag)
                 /\ p \notin removed

(* applyTransforms, twice in a row, under every combination of the three flags *)

MaxPipeFrags == 4

PipeFrags == {FENCE, BUTTON, TASKS, <<"#">>, <<" ">>, <<"\n">>, <<"a">>}

FlagSettings ==
    {[DEFAULT_SETTINGS EXCEPT !.removeButtons = b, !.removeTaskQueries = t, !.removeEmptySections = e] :
        b \in BOOLEAN, t \in BOOLEAN, e \in BOOLEAN}

InitPipeline ==
    /\ AtRest
    /\ settings \in FlagSettings
    /\ input \in FragTexts(PipeFrags, MaxPipeFrags)
    /\ output = <<>>

CallApplyTransforms ==
    /\ output = <<>>
    /\ output' = <<applyTransforms(settings, input)>>
    /\ UNCHANGED <<pluginVars, settings, input>>

CallApplyTransformsAgain ==
    /\ Len(output) = 1
    /\ output' = Append(output, applyTransforms(settings, output[1]))
    /\ UNCHANGED <<pluginVars, settings, input>>

NextPipeline == CallApplyTransforms \/ CallApplyTransformsAgain

SpecPipeline == InitPipeline /\ [][NextPipeline]_vars

\* C1: applyTransforms is idempotent: under every combination of the three flags, applying it
\* to its own result gives that result again.
C1_ApplyTransformsIdempotent ==
    Len(output) = 2 => output[2] = output[1]

(* applyTransforms on a heading whose section holds blank lines, fenced blocks or content *)

MaxOrderItems == 3

Chars(text) == {text[k] : k \in 1..Len(text)}

Block(tag, body) == FENCE \o tag \o body \o FENCE

BlankItems == {<<"\n">>, <<" ">>}

BlockItems ==
    {Block(BUTTON, <<"x">>), Block(BUTTON, <<"\n", "#", " ", "i", "\n">>), Block(TASKS, <<"\n", "q", "\n">>)}

ContentItems == {<<"c">>}

\* What precedes the heading, with every fence closed
ClosedPres == {<<>>, <<"a", "\n">>, <<"#", " ", "P", "\n", "p", "\n">>, Block(BUTTON, <<"x">>) \o <<"\n">>}

\* What precedes the heading, ending in an opening fence that nothing before the heading closes
OpenPres == {FENCE \o BUTTON \o <<"\n">>, FENCE \o TASKS \o <<"\n">>}

OrderPres == ClosedPres \cup OpenPres

OrderPosts == {<<>>, <<"#", " ", "G", "\n", "g">>, <<"#", " ", "G", "\n">>}

OrderHeadings == {<<"#", " ", "H">>, <<"#", "#", " ", "H">>}

\* The text of a structured argument: what precedes, the heading line, its section, what follows
OrderText(in) ==
    in.pre \o in.heading \o <<"\n">> \o Flatten(in.body)
        \o (IF in.post = <<>> THEN <<>> ELSE <<"\n">> \o in.post)

InitOrder ==
    /\ AtRest
    /\ settings \in FlagSettings
    /\ input \in [pre : OrderPres, heading : OrderHeadings,
                  body : Texts(BlankItems \cup BlockItems \cup ContentItems, MaxOrderItems),
                  post : OrderPosts]
    /\ output = <<>>

CallApplyTransformsOnSection ==
    /\ output = <<>>
    /\ output' = <<applyTransforms(settings, OrderText(input))>>
    /\ UNCHANGED <<pluginVars, settings, input>>

NextOrder == CallApplyTransformsOnSection

SpecOrder == InitOrder /\ [][NextOrder]_vars

AllFlags == settings.removeButtons /\ settings.removeTaskQueries /\ settings.removeEmptySections

OnlyBlanksAndBlocks(body) == \A k \in 1..Len(body) : body[k] \in BlankItems \cup BlockItems

\* C10: with the three flags enabled, block stripping runs before the pruning of empty
\* sections: a heading whose section, up to the next heading or the end of the text, holds
\* only blank lines and well-formed button/tasks blocks is absent from the result of
\* applyTransforms, and so are the blocks. The blocks are gone where no fence is left open
\* ahead of the heading: an open fence there takes the section's first fence as its closing one.
C10_BlocksStrippedBeforePruning ==
    (output # <<>> /\ AllFlags /\ OnlyBlanksAndBlocks(input.body)) =>
        /\ "H" \notin Chars(output[1])
        /\ input.pre \in ClosedPres => Chars(output[1]) \cap {BACKQUOTE, "x", "q", "i"} = {}

\* A section of a button block and a tasks block went, heading included, between kept neighbours
C10_Witness ==
    /\ output # <<>>
    /\ AllFlags
    /\ OnlyBlanksAndBlocks(input.body)
    /\ \E k \in 1..Len(input.body) : input.body[k] = Block(BUTTON, <<"x">>)
    /\ \E k \in 1..Len(input.body) : input.body[k] = Block(TASKS, <<"\n", "q", "\n">>)
    /\ input.pre = <<"#", " ", "P", "\n", "p", "\n">>
    /\ output[1] = <<"#", " ", "P", "\n", "p", "\n", "#", " ", "G", "\n", "g", "\n">>

(* isOldEnough on names with one date, well-formed or not, or two, under several thresholds and clocks *)

AgeYears == {<<"2", "0", "2", "3">>, <<"2", "0", "2", "4">>}
AgeMonths == {<<"0", "0">>, <<"0", "2">>, <<"0", "3">>, <<"1", "3">>}
AgeDays == {<<"0", "0">>, <<"0", "2">>, <<"2", "8">>, <<"2", "9">>, <<"3", "0">>, <<"3", "1">>, <<"3", "2">>}
AgeSeparators == {<<"-">>, <<"_">>, <<>>}
AgePrefixes == {<<>>, <<"1">>, <<"n", "-">>}
AgeSuffixes == {<<>>, <<"1">>, <<"-", "x">>}

AgeDates == {y \o <<"-">> \o m \o <<"-">> \o d : y \in AgeYears, m \in AgeMonths, d \in AgeDays}

AgeNames ==
    {p \o y \o s1 \o m \o s2 \o d \o x :
        p \in AgePrefixes, y \in {<<"2", "0", "2", "3">>}, s1 \in AgeSeparators,
        m \in {<<"0", "2">>, <<"0", "3">>}, s2 \in AgeSeparators,
        d \in {<<"0", "2">>, <<"3", "0">>}, x \in AgeSuffixes}
    \cup AgeDates
    \cup {a \o <<" ">> \o b : a, b \in {<<"2","0","2","3","-","1","3","-","0","1">>,
                                         <<"2","0","2","3","-","0","3","-","0","2">>,
                                         <<"2","0","2","4","-","0","3","-","0","2">>}}
    \cup {<<>>, <<"n", "o", "t", "e">>}

AgeThresholds == {0, 1, 7, 8}

\* 2023-03-09T00:00Z, an hour before it and an hour after it
AgeClocks == {makeDay(2023, 3, 9) * HoursPerDay + h : h \in {-1, 0, 1}}

InitAge ==
    /\ Quiet
    /\ now \in AgeClocks
    /\ host \in [lenient : BOOLEAN, folder : {""}]
    /\ settings \in {[DEFAULT_SETTINGS EXCEPT !.daysAfter = t] : t \in AgeThresholds}
    /\ input \in AgeNames
    /\ output = <<>>

CallIsOldEnough ==
    /\ output = <<>>
    /\ output' = <<isOldEnough(settings, input, now, host.lenient)>>
    /\ UNCHANGED <<pluginVars, settings, input>>

NextAge == CallIsOldEnough

SpecAge == InitAge /\ [][NextAge]_vars

\* y-m-d is a date of the calendar
ValidCalendarDate(y, m, d) == m \in 1..12 /\ d \in 1..daysInMonth(y, m)

\* The name holds the date shape, its first occurrence is a date of the calendar, and threshold
\* days or more have passed since that date's midnight
OldEnoughByTheCalendar(name, threshold, clock) ==
    \E i \in 1..Len(name) :
        /\ dateShapeAt(name, i)
        /\ \A h \in 1..(i - 1) : ~dateShapeAt(name, h)
        /\ LET y == DigitVal(name[i]) * 1000 + DigitVal(name[i + 1]) * 100
                      + DigitVal(name[i + 2]) * 10 + DigitVal(name[i + 3])
               m == DigitVal(name[i + 5]) * 10 + DigitVal(name[i + 6])
               d == DigitVal(name[i + 8]) * 10 + DigitVal(name[i + 9])
           IN  /\ ValidCalendarDate(y, m, d)
               /\ clock - makeDay(y, m, d) * HoursPerDay >= threshold * HoursPerDay

\* C3: isOldEnough(basename) is true if and only if the first substring of the date shape in
\* the basename is a valid calendar date and the time from its midnight to now, in unfloored
\* days, is at least settings.daysAfter; a basename without such a substring is never eligible.
C3_OldEnoughIffValidDateAndAge ==
    output # <<>> =>
        (output[1] <=> OldEnoughByTheCalendar(input, settings.daysAfter, now))

----------------------------------------------------------------------------
(* The plugin: onload, the triggers, cleanNotes and the settings tab *)

MaxRuns == 2

MaxClockSteps == 1

MaxEdits == 1

ClockStep == HoursPerDay

\* 2023-03-09T00:00Z
ClockStart == makeDay(2023, 3, 9) * HoursPerDay

\* loadData() of a first start: null
NoData == [k \in {} |-> TRUE]

\* What loadData() may return: nothing, or the settings an earlier session saved
StoredData ==
    {NoData, [DEFAULT_SETTINGS EXCEPT !.daysAfter = 1, !.dailyNotesFolder = "daily"]}

\* Object.assign({}, DEFAULT_SETTINGS, data)
assign(defaults, data) ==
    [k \in DOMAIN defaults |-> IF k \in DOMAIN data THEN data[k] ELSE defaults[k]]

\* The vault: one folder, "daily", with these children in order
FolderPaths == {"daily"}

Children ==
    << [kind |-> "file",   extension |-> "md",  basename |-> <<"2","0","2","3","-","0","3","-","0","1">>],
       [kind |-> "file",   extension |-> "png", basename |-> <<"2","0","2","3","-","0","3","-","0","1">>],
       [kind |-> "folder", extension |-> "",    basename |-> <<"o","l","d">>],
       [kind |-> "file",   extension |-> "md",  basename |-> <<"i","d","e","a","s">>],
       [kind |-> "file",   extension |-> "md",  basename |-> <<"2","0","2","3","-","0","2","-","3","0">>],
       [kind |-> "file",   extension |-> "md",  basename |-> <<"2","0","2","3","-","0","3","-","0","8">>] >>

IndentedHeading == <<" ", "#", " ", "a">>

WithButton ==
    <<"#", " ", "N", "\n", "b", "\n">> \o Block(BUTTON, <<"\n", "x", "\n">>) \o <<"\n">>

AlreadyClean == <<"#", " ", "N", "\n", "b", "\n">>

InitialContents ==
    [k \in 1..Len(Children) |->
        IF k = 1 THEN IndentedHeading
        ELSE IF k = 5 THEN WithButton
        ELSE IF Children[k].extension = "md" THEN AlreadyClean
        ELSE <<>>]

\* What the settings tab's text fields and toggles may hand to onChange
FolderInputs == {"daily ", "nowhere"}

DaysInputs == {<<"-", "3">>, <<"x">>, <<" ", "1", "d">>}

\* String.prototype.trim of a folder path (paths are kept whole, not as characters)
trimPath(path) == IF path = "daily " THEN "daily" ELSE path

\* parseInt(value, 10): leading whitespace, a sign, then the digits up to the first other character
RECURSIVE digitsValue(_, _, _)
digitsValue(str, i, acc) ==
    IF i <= Len(str) /\ str[i] \in Digits
    THEN digitsValue(str, i + 1, acc * 10 + DigitVal(str[i]))
    ELSE acc

parseInt(value) ==
    LET str    == trimStart(value)
        signed == str # <<>> /\ str[1] \in {"-", "+"}
        first  == IF signed THEN 2 ELSE 1
    IN  IF first > Len(str) \/ str[first] \notin Digits THEN [nan |-> TRUE, num |-> 0]
        ELSE [nan |-> FALSE,
              num |-> (IF signed /\ str[1] = "-" THEN -1 ELSE 1) * digitsValue(str, first, 0)]

\* The part of the settings that isOldEnough and applyTransforms read
config(s) ==
    [daysAfter |-> s.daysAfter, removeButtons |-> s.removeButtons,
     removeTaskQueries |-> s.removeTaskQueries, removeEmptySections |-> s.removeEmptySections]

isMarkdownFile(child) == child.kind = "file" /\ child.extension = "md"

\* The for loop of cleanNotes from child i on, up to its next await: the index of the next
\* markdown file that is old enough (0: the loop ends)
RECURSIVE nextToRead(_, _, _, _)
nextToRead(s, clock, roll, i) ==
    IF i > Len(Children) THEN 0
    ELSE IF isMarkdownFile(Children[i]) /\ isOldEnough(s, Children[i].basename, clock, roll) THEN i
    ELSE nextToRead(s, clock, roll, i + 1)

\* The loop reads this.settings from child i on (it calls isOldEnough at least once)
readsSettingsFrom(i) == \E k \in i..Len(Children) : isMarkdownFile(Children[k])

\* A run goes on after child i - 1: to its next read, or to its end
resume(run, i) ==
    LET k == nextToRead(settings, now, host.lenient, i)
        u == IF readsSettingsFrom(i) THEN config(settings) ELSE run.used
    IN  IF k = 0 THEN [run EXCEPT !.pc = "done", !.i = Len(Children) + 1, !.used = u]
        ELSE [run EXCEPT !.pc = "reading", !.i = k, !.used = u]

\* cleanNotes() up to its first await
cleanNotes ==
    LET folderPath == IF settings.dailyNotesFolder # "" THEN settings.dailyNotesFolder ELSE host.folder
        run == [pc |-> "start", i |-> 0, original |-> <<>>, cleaned |-> <<>>,
                start |-> config(settings), used |-> config(settings), settled |-> cleanDocs, processed |-> {}]
    IN  IF folderPath = "" THEN [run EXCEPT !.pc = "nofolder"]
        ELSE IF folderPath \notin FolderPaths THEN [run EXCEPT !.pc = "notfound"]
        ELSE resume(run, 1)

\* A run that ends has cleaned the documents it processed
cleanedBy(run) == IF run.pc = "done" THEN cleanDocs \cup run.processed ELSE cleanDocs

Init ==
    /\ phase = "unloaded"
    /\ settings = NoData
    /\ stored \in StoredData
    /\ contents = InitialContents
    /\ runs = <<>>
    /\ now = ClockStart
    /\ timer = 0
    /\ host \in [lenient : BOOLEAN, folder : {"", "daily"}]
    /\ cleanDocs = {}
    /\ edits = 0
    /\ input = <<>>
    /\ output = <<>>

Onload ==
    /\ phase = "unloaded"
    /\ LET loaded == assign(DEFAULT_SETTINGS, stored)
       IN  settings' = IF loaded.dailyNotesFolder = "" /\ host.folder # ""
                       THEN [loaded EXCEPT !.dailyNotesFolder = host.folder]
                       ELSE loaded
    /\ phase' = "loaded"
    /\ UNCHANGED <<stored, contents, runs, now, timer, host, cleanDocs, edits, input, output>>

\* onLayoutReady: a first run, and the 24-hour interval
LayoutReady ==
    /\ phase = "loaded"
    /\ Len(runs) < MaxRuns
    /\ LET run == cleanNotes
       IN  /\ runs' = Append(runs, run)
           /\ cleanDocs' = cleanedBy(run)
    /\ timer' = now + HoursPerDay
    /\ phase' = "ready"
    /\ UNCHANGED <<settings, stored, contents, now, host, edits, input, output>>

\* The command "Clean old daily notes"
Command ==
    /\ phase \in {"loaded", "ready"}
    /\ Len(runs) < MaxRuns
    /\ LET run == cleanNotes
       IN  /\ runs' = Append(runs, run)
           /\ cleanDocs' = cleanedBy(run)
    /\ UNCHANGED <<phase, settings, stored, contents, now, timer, host, edits, input, output>>

IntervalTick ==
    /\ phase = "ready"
    /\ now >= timer
    /\ Len(runs) < MaxRuns
    /\ LET run == cleanNotes
       IN  /\ runs' = Append(runs, run)
           /\ cleanDocs' = cleanedBy(run)
    /\ timer' = timer + HoursPerDay
    /\ UNCHANGED <<phase, settings, stored, contents, now, host, edits, input, output>>

ClockAdvance ==
    /\ now < ClockStart + MaxClockSteps * ClockStep
    /\ now' = now + ClockStep
    /\ UNCHANGED <<phase, settings, stored, contents, runs, timer, host, cleanDocs, edits, input, output>>

\* await vault.read(child) resolves: transform, compare, and either ask for the write or go on
ReadResolves(r) ==
    /\ runs[r].pc = "reading"
    /\ LET original == contents[runs[r].i]
           cleaned  == applyTransforms(settings, original)
           read     == [runs[r] EXCEPT !.original = original, !.cleaned = cleaned, !.used = config(settings)]
           run      == IF original # cleaned THEN [read EXCEPT !.pc = "modifying"]
                       ELSE resume([read EXCEPT !.processed = @ \cup {runs[r].i}], runs[r].i + 1)
       IN  /\ runs' = [runs EXCEPT ![r] = run]
           /\ cleanDocs' = cleanedBy(run)
    /\ UNCHANGED <<phase, settings, stored, contents, now, timer, host, edits, input, output>>

\* await vault.read(child) rejects: the exception leaves the loop and cleanNotes
ReadRejects(r) ==
    /\ runs[r].pc = "reading"
    /\ runs' = [runs EXCEPT ![r].pc = "aborted"]
    /\ UNCHANGED <<phase, settings, stored, contents, now, timer, host, cleanDocs, edits, input, output>>

\* await vault.modify(child, cleaned) resolves: the text is written, the loop goes on
ModifyResolves(r) ==
    /\ runs[r].pc = "modifying"
    /\ LET i       == runs[r].i
           changed == contents[i] # runs[r].cleaned
           others  == [q \in 1..Len(runs) |->
                          IF changed /\ q # r
                          THEN [runs[q] EXCEPT !.settled = @ \ {i}, !.processed = @ \ {i}]
                          ELSE runs[q]]
           run     == resume([runs[r] EXCEPT !.processed = @ \cup {i}], i + 1)
       IN  /\ contents' = [contents EXCEPT ![i] = runs[r].cleaned]
           /\ runs' = [others EXCEPT ![r] = run]
           /\ cleanDocs' = (IF changed THEN cleanDocs \ {i} ELSE cleanDocs)
                              \cup (IF run.pc = "done" THEN run.processed ELSE {})
    /\ UNCHANGED <<phase, settings, stored, now, timer, host, edits, input, output>>

ModifyRejects(r) ==
    /\ runs[r].pc = "modifying"
    /\ runs' = [runs EXCEPT ![r].pc = "aborted"]
    /\ UNCHANGED <<phase, settings, stored, contents, now, timer, host, cleanDocs, edits, input, output>>

\* A settings-tab handler stores the new settings object; what was cleaned under the old
\* settings no longer counts as cleaned
changeSettings(new) ==
    /\ edits < MaxEdits
    /\ edits' = edits + 1
    /\ settings' = new
    /\ stored' = new
    /\ IF new = settings
       THEN UNCHANGED <<runs, cleanDocs>>
       ELSE /\ cleanDocs' = {}
            /\ runs' = [q \in 1..Len(runs) |-> [runs[q] EXCEPT !.settled = {}, !.processed = {}]]
    /\ UNCHANGED <<phase, contents, now, timer, host, input, output>>

ChangeFolder ==
    /\ phase # "unloaded"
    /\ \E value \in FolderInputs :
          changeSettings([settings EXCEPT !.dailyNotesFolder = trimPath(value)])

ChangeDaysAfter ==
    /\ phase # "unloaded"
    /\ \E value \in DaysInputs :
          LET num == parseInt(value)
          IN  IF ~num.nan
              THEN changeSettings([settings EXCEPT !.daysAfter = num.num])
              ELSE edits < MaxEdits /\ edits' = edits + 1
                   /\ UNCHANGED <<phase, settings, stored, contents, runs, now, timer, host,
                                  cleanDocs, input, output>>

ToggleRemoveButtons ==
    /\ phase # "unloaded"
    /\ \E value \in BOOLEAN : changeSettings([settings EXCEPT !.removeButtons = value])

ToggleRemoveTaskQueries ==
    /\ phase # "unloaded"
    /\ \E value \in BOOLEAN : changeSettings([settings EXCEPT !.removeTaskQueries = value])

ToggleRemoveEmptySections ==
    /\ phase # "unloaded"
    /\ \E value \in BOOLEAN : changeSettings([settings EXCEPT !.removeEmptySections = value])

Next ==
    \/ Onload
    \/ LayoutReady
    \/ Command
    \/ IntervalTick
    \/ ClockAdvance
    \/ \E r \in 1..Len(runs) : ReadResolves(r)
    \/ \E r \in 1..Len(runs) : ReadRejects(r)
    \/ \E r \in 1..Len(runs) : ModifyResolves(r)
    \/ \E r \in 1..Len(runs) : ModifyRejects(r)
    \/ ChangeFolder
    \/ ChangeDaysAfter
    \/ ToggleRemoveButtons
    \/ ToggleRemoveTaskQueries
    \/ ToggleRemoveEmptySections

Spec == Init /\ [][Next]_vars

Active(r) == runs[r].pc \in {"reading", "modifying"}

\* C2: re-running never rewrites an already-cleaned document: a run asks for no vault.modify
\* of a document that an earlier, completed run processed as eligible, when neither the
\* settings nor the document's text were changed by anything else since.
C2_NoRewriteOfCleanedDocument ==
    \A r \in 1..Len(runs) :
        runs[r].pc = "modifying" => runs[r].i \notin runs[r].settled

\* C4: per-document error isolation: a run in which a read or a modify failed still reads
\* every remaining eligible document and reaches its end, so no run is cut short while a
\* markdown file that is old enough is left after the failed one.
C4_FailureIsolatedPerDocument ==
    \A r \in 1..Len(runs) :
        runs[r].pc = "aborted" =>
            nextToRead(settings, now, host.lenient, runs[r].i + 1) = 0

\* C7: the age threshold is never negative, from the loading of the settings at startup on
\* and through every edit in the settings tab.
C7_ThresholdNeverNegative ==
    phase # "unloaded" => settings.daysAfter >= 0

\* C8: the configuration is immutable for the duration of a run: every document of a run is
\* classified and transformed under the threshold and the three flags that held when the run
\* started, whatever the settings tab does while the run waits for a read or a write.
C8_ConfigurationFixedDuringRun ==
    \A r \in 1..Len(runs) : runs[r].used = runs[r].start

\* C9: runs never overlap on a document: a trigger that fires while a run is active is queued
\* or dropped, so no two runs are between their read and their write of the same document.
C9_RunsNeverOverlapOnDocument ==
    \A r, q \in 1..Len(runs) :
        (r # q /\ Active(r) /\ Active(q)) => runs[r].i # runs[q].i

====
